---- MODULE Spec2Model ----
(***************************************************************************)
(* bgp-scout: the conditional fetcher (src/src/download.rs), the           *)
(* decompressor (src/src/gzip.rs), the CIDR exclusion step and the prefix  *)
(* collector (src/src/main.rs).                                            *)
(*                                                                         *)
(* Modelling decisions, all taken from the source:                         *)
(*  - every file operation of download_cached / decompress_gzip is one     *)
(*    step, and the process can be killed between any two steps;           *)
(*  - fs::remove_file is called as `let _ = fs::remove_file(..)`: it is    *)
(*    modelled as removing the file (a no-op when the file is absent);     *)
(*  - every operation whose error the code handles (`?`, `if let Err`,     *)
(*    `map_err`) has a failing outcome;                                    *)
(*  - times are whole seconds (the precision of an RFC 2822 timestamp);    *)
(*    the system clock is std::time::SystemTime, which is not monotonic;   *)
(*  - a file is abstracted to the version of the remote resource it holds  *)
(*    and whether its bytes are complete;                                  *)
(*  - a std::io::BufWriter keeps the last bytes written to it until it is  *)
(*    flushed; dropping it flushes and ignores a failure of that write.    *)
(***************************************************************************)
EXTENDS Integers, Sequences, FiniteSets, TLC

\* ------------------------------------------------------------------ bounds
MaxTime == 2
MaxVer == 2
MaxWindow == 1
AddrBits == 3
MaxPrefixes == 2
MaxExcluded == 2
MaxRecords == 2

\* ------------------------------------------------------------------ state
VARIABLES
    art,        \* the artifact file `output_file_name`
    etag,       \* the side-car file `<output_file_name>.etag`
    now,        \* the system clock (seconds)
    mtimeOk,    \* whether Metadata::modified() is available on this platform
    srv,        \* the remote resource: current version and its last-modified time
    pc,         \* position of the process inside download_cached
    headers,    \* the HeaderMap of the outgoing request
    resp,       \* the response being handled
    buffered,   \* the BufWriter around the artifact holds unflushed body bytes
    result,     \* value returned by the last call (pending while pc = "drop")
    pre,        \* history: the cache at the start of the call, and the call's window
    reqs,       \* history: requests sent by the call
    wfail,      \* history: a write of the response body failed in the call
    gzfs,       \* decompress_gzip: the files output_file and output_file.tmp
    gzpc,       \* decompress_gzip: position
    gzres,      \* decompress_gzip: value returned by the last call
    gzpre,      \* history: output_file at the start of the call
    cand,       \* exclude_subnets: `prefixes`
    excl,       \* exclude_subnets: `excluded_set` in its iteration order
    exres,      \* exclude_subnets: whether it has run, and the returned Vec
    records,    \* scan_prefixes: the route records the parser yields
    wanted,     \* scan_prefixes: `origin_asns`
    famFilter,  \* scan_prefixes: (ipv4_only, ipv6_only)
    scanres,    \* scan_prefixes: whether it has run, and the returned prefixes
    opts,       \* main, find-netblocks: the `exclude_subnets` option as given
    mpc,        \* main, find-netblocks: position
    stdout,     \* main, find-netblocks: the prefixes printed by render_output
    needle,     \* main, netblock-contains: the `needle` argument
    haystack,   \* main, netblock-contains: the `haystack` argument
    nbres       \* main, netblock-contains: what the command printed or returned

fetchVars == <<art, etag, now, mtimeOk, srv, pc, headers, resp, buffered,
               result, pre, reqs, wfail>>
gzVars == <<gzfs, gzpc, gzres, gzpre>>
exVars == <<cand, excl, exres>>
scanVars == <<records, wanted, famFilter, scanres>>
mainVars == <<opts, mpc, stdout>>
nbVars == <<needle, haystack, nbres>>
cliVars == <<mainVars, nbVars>>
vars == <<fetchVars, gzVars, exVars, scanVars, cliVars>>

\* ------------------------------------------------------------ file values
AbsentFile == [exists |-> FALSE, ver |-> 0, full |-> FALSE, mtime |-> 0]
AbsentEtag == [exists |-> FALSE, kind |-> "none", ver |-> 0, mtime |-> 0]
\* A HeaderMap is the set of its (name, value) entries
NoHeaders == {}
IfNoneMatch(v) == {[name |-> "If-None-Match", val |-> v]}
IfModifiedSince(v) == {[name |-> "If-Modified-Since", val |-> v]}
NoResp == [status |-> 0, etag |-> FALSE, lm |-> "none", ver |-> 0, lmtime |-> 0]
NoPre == [art |-> AbsentFile, etag |-> AbsentEtag, window |-> 0]
NoResult == [kind |-> "none", why |-> "", status |-> 0]
Ok(k) == [kind |-> k, why |-> "", status |-> 0]
Err(w, s) == [kind |-> "err", why |-> w, status |-> s]
Killed == [kind |-> "killed", why |-> "", status |-> 0]

OtherStatuses == {404, 500}

\* ---------------------------------------------------- side-car content
\* fs::read_to_string(&etag_file_name): fails on an unreadable file
ReadToString(e) == IF e.kind = "unreadable" THEN "err" ELSE e.kind

\* etag_file_str.lines().next().map(trim): None for a zero-length file
FirstLine(s) == IF s = "empty" THEN "none" ELSE s

\* HeaderValue::from_str(&etag): Err for bytes a header value cannot hold
HeaderValueFromStr(l) == IF l = "invalid" THEN "err" ELSE l

\* The token of the stale side-car as a header value, or "unusable"
SidecarToken(e) ==
    LET s == ReadToString(e) IN
    IF s = "err" THEN "unusable"
    ELSE LET l == FirstLine(s) IN
         IF l = "none" THEN "unusable"
         ELSE IF HeaderValueFromStr(l) = "err" THEN "unusable" ELSE "usable"

\* modified.elapsed(): Err when the mtime is later than the clock
Elapsed(m, t) == IF m > t THEN -1 ELSE t - m

\* Mutation of Stale: the comparison reversed
Stale_Reversed(el, w) == el <= w

\* elapsed > verify_etag_duration
Stale(el, w) == el > w

\* Mutation of StaleDecision: an unusable side-car is left on disk
StaleDecision_KeepsSidecar(e) ==
    IF SidecarToken(e) = "usable"
    THEN [out |-> "go", hdr |-> IfNoneMatch(e.ver), del |-> FALSE]
    ELSE [out |-> "go", hdr |-> NoHeaders, del |-> FALSE]

\* Mutation of StaleDecision: If-Modified-Since is sent along with the token
StaleDecision_BothHeaders(e) ==
    IF SidecarToken(e) = "usable"
    THEN [out |-> "go", hdr |-> IfNoneMatch(e.ver) \cup IfModifiedSince(e.mtime),
          del |-> FALSE]
    ELSE [out |-> "go", hdr |-> NoHeaders, del |-> TRUE]

\* The side-car is stale: If-None-Match with its token, or delete it
StaleDecision(e) ==
    IF SidecarToken(e) = "usable"
    THEN [out |-> "go", hdr |-> IfNoneMatch(e.ver), del |-> FALSE]
    ELSE [out |-> "go", hdr |-> NoHeaders, del |-> TRUE]

\* The decision of download_cached before the request (lines 45-120)
Decide(a, e, t, w, mok) ==
    IF ~a.exists
    THEN [out |-> "go", hdr |-> NoHeaders, del |-> TRUE]
    ELSE IF e.exists
    THEN IF ~mok
         THEN [out |-> "go", hdr |-> NoHeaders, del |-> TRUE]
         ELSE IF Elapsed(e.mtime, t) < 0
         THEN [out |-> "err", hdr |-> NoHeaders, del |-> FALSE]
         ELSE IF Stale(Elapsed(e.mtime, t), w)
         THEN StaleDecision(e)
         ELSE [out |-> "cached", hdr |-> NoHeaders, del |-> FALSE]
    ELSE IF mok
         THEN [out |-> "go", hdr |-> IfModifiedSince(a.mtime), del |-> FALSE]
         ELSE [out |-> "go", hdr |-> NoHeaders, del |-> FALSE]

\* ------------------------------------------------------------- the server
\* An HTTP origin: 304 when the precondition of the request holds of the
\* current version, 200 otherwise.
ServerStatus(h, s) ==
    IF \E x \in h : x.name = "If-None-Match"
    THEN (IF IfNoneMatch(s.ver) \subseteq h THEN 304 ELSE 200)
    ELSE IF \E x \in h : x.name = "If-Modified-Since" /\ s.lastmod <= x.val
    THEN 304
    ELSE 200

Responses(h, s) ==
    LET st == ServerStatus(h, s) IN
    IF st = 304
    THEN {[status |-> 304, etag |-> e, lm |-> "none", ver |-> s.ver, lmtime |-> 0]
            : e \in BOOLEAN}
    ELSE {[status |-> 200, etag |-> e, lm |-> l, ver |-> s.ver,
           lmtime |-> IF l = "valid" THEN s.lastmod ELSE 0]
            : e \in BOOLEAN, l \in {"none", "valid", "bad"}}

ErrorResponses ==
    {[status |-> c, etag |-> FALSE, lm |-> "none", ver |-> 0, lmtime |-> 0]
        : c \in OtherStatuses}

\* ------------------------------------------------- download_cached: steps
\* Quiescent values of the other components (each specification moves one
\* component and leaves the others at these values).
GzIdle ==
    /\ gzfs = [f \in {"out", "tmp"} |-> AbsentFile]
    /\ gzpc = "idle" /\ gzres = "none" /\ gzpre = AbsentFile
NotRun == [done |-> FALSE, out |-> <<>>]
NotScanned == [done |-> FALSE, out |-> {}]
ExIdle == cand = <<>> /\ excl = <<>> /\ exres = NotRun
ScanIdle ==
    records = <<>> /\ wanted = {} /\ famFilter = "either" /\ scanres = NotScanned
\* A command-line argument: text that parses as a prefix, or text that does not
NoArg == [wf |-> FALSE, net |-> [fam |-> "v4", addr |-> 0, len |-> 0]]
None == [some |-> FALSE, v |-> <<>>]
Some(x) == [some |-> TRUE, v |-> x]
MainIdle == opts = None /\ mpc = "idle" /\ stdout = {}
NbIdle == needle = NoArg /\ haystack = NoArg /\ nbres = "none"
CliIdle == MainIdle /\ NbIdle
FetchQuiet ==
    /\ etag = AbsentEtag /\ now = 0 /\ mtimeOk = TRUE
    /\ srv = [ver |-> 1, lastmod |-> 0] /\ pc = "idle"
    /\ headers = NoHeaders /\ resp = NoResp /\ buffered = FALSE
    /\ result = NoResult /\ pre = NoPre /\ reqs = 0 /\ wfail = FALSE
FetchIdle == art = AbsentFile /\ FetchQuiet

\* The state after construction: an empty cache directory.
Init ==
    /\ art = AbsentFile /\ etag = AbsentEtag
    /\ now = 0 /\ mtimeOk \in BOOLEAN
    /\ srv = [ver |-> 1, lastmod |-> 0]
    /\ pc = "idle" /\ headers = NoHeaders /\ resp = NoResp
    /\ buffered = FALSE /\ result = NoResult /\ pre = NoPre /\ reqs = 0
    /\ wfail = FALSE
    /\ GzIdle /\ ExIdle /\ ScanIdle /\ CliIdle

Others == UNCHANGED <<gzVars, exVars, scanVars, cliVars>>

\* `return r` from download_cached
Return(r) == pc' = "idle" /\ result' = r /\ buffered' = FALSE

\* Leaving the 200 arm: the BufWriter is dropped after the value is computed
ExitOk200(r) == pc' = "drop" /\ result' = r /\ UNCHANGED buffered

\* download_cached(url, output_file_name, Some(w), ..), up to the request
Call ==
    /\ pc = "idle"
    /\ \E w \in 0..MaxWindow :
        LET d == Decide(art, etag, now, w, mtimeOk) IN
        /\ pre' = [art |-> art, etag |-> etag, window |-> w]
        /\ headers' = d.hdr
        /\ IF d.out = "cached" THEN Return(Ok("cached"))
           ELSE IF d.out = "err" THEN Return(Err("clock", 0))
           ELSE /\ pc' = (IF d.del THEN "remove_etag" ELSE "send")
                /\ result' = NoResult /\ buffered' = FALSE
    /\ reqs' = 0 /\ wfail' = FALSE /\ resp' = NoResp
    /\ UNCHANGED <<art, etag, now, mtimeOk, srv>> /\ Others

\* if delete_etag_file { let _ = fs::remove_file(&etag_file_name); }
RemoveEtag ==
    /\ pc = "remove_etag"
    /\ etag' = AbsentEtag
    /\ pc' = "send"
    /\ UNCHANGED <<art, now, mtimeOk, srv, headers, resp, buffered, result,
                   pre, reqs, wfail>> /\ Others

\* client.get(url).headers(headers).send(): transport failure
SendFails ==
    /\ pc = "send"
    /\ reqs' = reqs + 1
    /\ Return(Err("transport", 0))
    /\ headers' = NoHeaders
    /\ UNCHANGED <<art, etag, now, mtimeOk, srv, resp, pre, wfail>>
    /\ Others

\* client.get(url).headers(headers).send() (the HeaderMap is moved into the
\* request) and match response.status()
Send ==
    /\ pc = "send"
    /\ reqs' = reqs + 1
    /\ \E r \in Responses(headers, srv) \cup ErrorResponses :
        /\ resp' = r
        /\ pc' = (IF r.status = 304 THEN "not_modified"
                  ELSE IF r.status = 200 THEN "create" ELSE "other_rm_art")
    /\ headers' = NoHeaders
    /\ UNCHANGED <<art, etag, now, mtimeOk, srv, buffered, result, pre, wfail>>
    /\ Others

\* Mutation of Touch: the side-car's mtime is not refreshed
Touch_NoRefresh ==
    /\ pc = "not_modified" /\ etag.exists
    /\ \/ UNCHANGED etag /\ Return(Ok("cached"))
       \/ UNCHANGED etag /\ Return(Err("io", 0))
    /\ UNCHANGED <<art, now, mtimeOk, srv, headers, resp, pre, reqs, wfail>>
    /\ Others

\* StatusCode::NOT_MODIFIED, etag file exists: touch it
Touch ==
    /\ pc = "not_modified" /\ etag.exists
    /\ \/ etag' = [etag EXCEPT !.mtime = now] /\ Return(Ok("cached"))
       \/ UNCHANGED etag /\ Return(Err("io", 0))
    /\ UNCHANGED <<art, now, mtimeOk, srv, headers, resp, pre, reqs, wfail>>
    /\ Others

\* StatusCode::NOT_MODIFIED, no etag file: create it when the server sent a token
CreateMissingEtag ==
    /\ pc = "not_modified" /\ ~etag.exists
    /\ IF resp.etag
       THEN \/ /\ etag' = [exists |-> TRUE, kind |-> "empty", ver |-> 0, mtime |-> now]
               /\ pc' = "nm_write" /\ UNCHANGED <<result, buffered>>
            \/ UNCHANGED etag /\ Return(Err("io", 0))
       ELSE UNCHANGED etag /\ Return(Ok("cached"))
    /\ UNCHANGED <<art, now, mtimeOk, srv, headers, resp, pre, reqs, wfail>>
    /\ Others

\* writeln!(file, "{}", etag_str)?
WriteMissingEtag ==
    /\ pc = "nm_write"
    /\ \/ /\ etag' = [exists |-> TRUE, kind |-> "token", ver |-> resp.ver, mtime |-> now]
          /\ Return(Ok("cached"))
       \/ UNCHANGED etag /\ Return(Err("io", 0))
    /\ UNCHANGED <<art, now, mtimeOk, srv, headers, resp, pre, reqs, wfail>>
    /\ Others

\* StatusCode::OK: File::create(output_file_name)? truncates the artifact
CreateArtifact ==
    /\ pc = "create"
    /\ \/ /\ art' = [exists |-> TRUE, ver |-> resp.ver, full |-> FALSE, mtime |-> now]
          /\ pc' = "copy" /\ UNCHANGED <<result, buffered>>
       \/ UNCHANGED art /\ Return(Err("io", 0))
    /\ UNCHANGED <<etag, now, mtimeOk, srv, headers, resp, pre, reqs, wfail>>
    /\ Others

\* response.copy_to(&mut writer) returns Ok: the body went through the
\* BufWriter, whose last bytes may still be in its buffer, not in the file
CopyBody ==
    /\ pc = "copy"
    /\ \/ art' = [art EXCEPT !.full = TRUE] /\ buffered' = FALSE
       \/ UNCHANGED art /\ buffered' = TRUE
    /\ pc' = "last_modified"
    /\ UNCHANGED <<etag, now, mtimeOk, srv, headers, resp, result, pre, reqs,
                   wfail>> /\ Others

\* response.copy_to(&mut writer) returns Err
CopyFails ==
    /\ pc = "copy"
    /\ wfail' = TRUE
    /\ pc' = "wf_rm_etag"
    /\ UNCHANGED <<art, etag, now, mtimeOk, srv, headers, resp, buffered,
                   result, pre, reqs>> /\ Others

\* let _ = fs::remove_file(&etag_file_name);  (write failure path)
WriteFailRemoveEtag ==
    /\ pc = "wf_rm_etag"
    /\ etag' = AbsentEtag
    /\ pc' = "wf_rm_art"
    /\ UNCHANGED <<art, now, mtimeOk, srv, headers, resp, buffered, result,
                   pre, reqs, wfail>> /\ Others

\* let _ = fs::remove_file(output_file_name); return Err(..)  (the dropped
\* BufWriter flushes into the unlinked file)
WriteFailRemoveArtifact ==
    /\ pc = "wf_rm_art"
    /\ art' = AbsentFile
    /\ Return(Err("write", 0))
    /\ UNCHANGED <<etag, now, mtimeOk, srv, headers, resp, pre, reqs, wfail>>
    /\ Others

\* Last-Modified header: parse it and set the artifact's mtime
LastModified ==
    /\ pc = "last_modified"
    /\ IF resp.lm = "none"
       THEN UNCHANGED art /\ pc' = "etag" /\ UNCHANGED <<result, buffered>>
       ELSE IF resp.lm = "bad"
       THEN UNCHANGED art /\ ExitOk200(Err("header", 0))
       ELSE \/ /\ art' = [art EXCEPT !.mtime = resp.lmtime]
               /\ pc' = "etag" /\ UNCHANGED <<result, buffered>>
            \/ UNCHANGED art /\ ExitOk200(Err("io", 0))
    /\ UNCHANGED <<etag, now, mtimeOk, srv, headers, resp, pre, reqs, wfail>>
    /\ Others

\* ETag header: fs::write(&etag_file_name, etag.to_str()?)
SaveEtag ==
    /\ pc = "etag"
    /\ IF resp.etag
       THEN \/ /\ etag' = [exists |-> TRUE, kind |-> "token", ver |-> resp.ver,
                           mtime |-> now]
               /\ ExitOk200(Ok("downloaded"))
            \/ /\ etag' \in {etag, [exists |-> TRUE, kind |-> "empty", ver |-> 0,
                                    mtime |-> now]}
               /\ pc' = "etag_rm" /\ UNCHANGED <<result, buffered>>
       ELSE UNCHANGED etag /\ ExitOk200(Ok("downloaded"))
    /\ UNCHANGED <<art, now, mtimeOk, srv, headers, resp, pre, reqs, wfail>>
    /\ Others

\* Mutation of SaveEtagFailed: the side-car is left as the failed write left it
SaveEtagFailed_Keeps ==
    /\ pc = "etag_rm"
    /\ ExitOk200(Err("token", 0))
    /\ UNCHANGED <<art, etag, now, mtimeOk, srv, headers, resp, pre, reqs, wfail>>
    /\ Others

\* fs::write failed: let _ = fs::remove_file(&etag_file_name); return Err(..)
SaveEtagFailed ==
    /\ pc = "etag_rm"
    /\ etag' = AbsentEtag
    /\ ExitOk200(Err("token", 0))
    /\ UNCHANGED <<art, now, mtimeOk, srv, headers, resp, pre, reqs, wfail>>
    /\ Others

\* End of the 200 arm: `writer` (BufWriter) is dropped; the drop flushes the
\* buffered bytes and ignores a failure of that write
DropWriter ==
    /\ pc = "drop"
    /\ IF buffered
       THEN \/ art' = [art EXCEPT !.full = TRUE, !.mtime = now] /\ UNCHANGED wfail
            \/ UNCHANGED art /\ wfail' = TRUE
       ELSE UNCHANGED <<art, wfail>>
    /\ Return(result)
    /\ UNCHANGED <<etag, now, mtimeOk, srv, headers, resp, pre, reqs>>
    /\ Others

\* any other status: let _ = fs::remove_file(output_file_name);
OtherRemoveArtifact ==
    /\ pc = "other_rm_art"
    /\ art' = AbsentFile
    /\ pc' = "other_rm_etag"
    /\ UNCHANGED <<etag, now, mtimeOk, srv, headers, resp, buffered, result,
                   pre, reqs, wfail>> /\ Others

\* Mutation of OtherRemoveEtag: the side-car is not removed
OtherRemoveEtag_Keeps ==
    /\ pc = "other_rm_etag"
    /\ Return(Err("http", resp.status))
    /\ UNCHANGED <<art, etag, now, mtimeOk, srv, headers, resp, pre, reqs, wfail>>
    /\ Others

\* let _ = fs::remove_file(etag_file_name); Err("... HTTP {status}")
OtherRemoveEtag ==
    /\ pc = "other_rm_etag"
    /\ etag' = AbsentEtag
    /\ Return(Err("http", resp.status))
    /\ UNCHANGED <<art, now, mtimeOk, srv, headers, resp, pre, reqs, wfail>>
    /\ Others

\* The process is killed inside download_cached
Kill ==
    /\ pc # "idle"
    /\ Return(Killed)
    /\ pre' = NoPre /\ resp' = NoResp /\ reqs' = 0 /\ wfail' = FALSE
    /\ headers' = NoHeaders
    /\ UNCHANGED <<art, etag, now, mtimeOk, srv>> /\ Others

\* ------------------------------------------------------- the environment
\* Between two runs the history of the last call is forgotten.
Forget ==
    /\ result' = NoResult /\ pre' = NoPre /\ resp' = NoResp /\ reqs' = 0
    /\ wfail' = FALSE /\ headers' = NoHeaders
    /\ UNCHANGED <<pc, buffered, mtimeOk>> /\ Others

Tick ==
    /\ pc = "idle" /\ now < MaxTime
    /\ now' = now + 1
    /\ Forget /\ UNCHANGED <<art, etag, srv>>

\* SystemTime is not monotonic: the clock is set back
ClockBack ==
    /\ pc = "idle" /\ now > 0
    /\ now' = now - 1
    /\ Forget /\ UNCHANGED <<art, etag, srv>>

\* The remote resource is replaced by a new version
ServerUpdate ==
    /\ pc = "idle" /\ srv.ver < MaxVer
    /\ srv' = [ver |-> srv.ver + 1, lastmod |-> now]
    /\ Forget /\ UNCHANGED <<art, etag, now>>

\* The side-car is damaged outside the program
CorruptSidecar ==
    /\ pc = "idle" /\ etag.exists
    /\ \E k \in {"empty", "invalid", "unreadable"} :
        etag' = [etag EXCEPT !.kind = k, !.ver = 0]
    /\ Forget /\ UNCHANGED <<art, now, srv>>

Next ==
    \/ Call \/ RemoveEtag \/ SendFails \/ Send
    \/ Touch \/ CreateMissingEtag \/ WriteMissingEtag
    \/ CreateArtifact \/ CopyBody \/ CopyFails
    \/ WriteFailRemoveEtag \/ WriteFailRemoveArtifact
    \/ LastModified \/ SaveEtag \/ SaveEtagFailed \/ DropWriter
    \/ OtherRemoveArtifact \/ OtherRemoveEtag
    \/ Kill
    \/ Tick \/ ClockBack \/ ServerUpdate \/ CorruptSidecar

Spec == Init /\ [][Next]_vars

\* ======================================================= decompress_gzip
\* The gzip input file (`input_file`) is `art`; gzfs holds output_file
\* ("out") and the temporary file ("tmp").

\* Mutation of output_file_tmp: the output is written in place
output_file_tmp_InPlace(output_file) == output_file

\* let output_file_tmp = output_file.to_owned() + ".tmp";
output_file_tmp(output_file) == IF output_file = "out" THEN "tmp" ELSE output_file

GzInputs ==
    {AbsentFile} \cup
    {[exists |-> TRUE, ver |-> v, full |-> f, mtime |-> 0]
        : v \in 1..MaxVer, f \in BOOLEAN}

InitGzip ==
    /\ art \in GzInputs /\ FetchQuiet
    /\ GzIdle /\ ExIdle /\ ScanIdle /\ CliIdle

GzOthers == UNCHANGED <<fetchVars, exVars, scanVars, cliVars>>
GzReturn(r) == gzpc' = "idle" /\ gzres' = r

\* decompress_gzip(input_file, output_file): File::open(input_file)?
GzOpen ==
    /\ gzpc = "idle"
    /\ gzpre' = gzfs["out"]
    /\ \/ art.exists /\ gzpc' = "create_tmp" /\ gzres' = "none"
       \/ GzReturn("err")
    /\ UNCHANGED gzfs /\ GzOthers

\* File::create(&output_file_tmp)?
GzCreateTmp ==
    /\ gzpc = "create_tmp"
    /\ \/ /\ gzfs' = [gzfs EXCEPT ![output_file_tmp("out")] =
                        [exists |-> TRUE, ver |-> art.ver, full |-> FALSE, mtime |-> 0]]
          /\ gzpc' = "copy" /\ UNCHANGED gzres
       \/ UNCHANGED gzfs /\ GzReturn("err")
    /\ UNCHANGED gzpre /\ GzOthers

\* io::copy(&mut decoder, &mut buf_writer)?: the decoder fails on a
\* truncated input; a read or a write can fail on any input
GzCopy ==
    /\ gzpc = "copy"
    /\ \/ art.full /\ gzpc' = "flush" /\ UNCHANGED gzres
       \/ GzReturn("err")
    /\ UNCHANGED <<gzfs, gzpre>> /\ GzOthers

\* buf_writer.flush()?
GzFlush ==
    /\ gzpc = "flush"
    /\ \/ /\ gzfs' = [gzfs EXCEPT ![output_file_tmp("out")].full = TRUE]
          /\ gzpc' = "rename" /\ UNCHANGED gzres
       \/ UNCHANGED gzfs /\ GzReturn("err")
    /\ UNCHANGED gzpre /\ GzOthers

\* fs::rename(output_file_tmp, output_file)?; Ok(())
GzRename ==
    /\ gzpc = "rename"
    /\ \/ /\ gzfs' = [gzfs EXCEPT ![output_file_tmp("out")] = AbsentFile,
                                  !["out"] = gzfs[output_file_tmp("out")]]
          /\ GzReturn("ok")
       \/ UNCHANGED gzfs /\ GzReturn("err")
    /\ UNCHANGED gzpre /\ GzOthers

\* The process is killed inside decompress_gzip
GzKill ==
    /\ gzpc # "idle"
    /\ GzReturn("killed")
    /\ UNCHANGED <<gzfs, gzpre>> /\ GzOthers

\* Between two runs the gzip artifact is replaced (a new download, or a
\* download that was cut short)
GzInputChanges ==
    /\ gzpc = "idle"
    /\ \E a \in GzInputs : a # art /\ art' = a
    /\ gzres' = "none" /\ gzpre' = gzfs["out"]
    /\ UNCHANGED <<gzfs, gzpc, etag, now, mtimeOk, srv, pc, headers, resp, buffered,
                   result, pre, reqs, wfail, exVars, scanVars, cliVars>>

NextGzip ==
    \/ GzOpen \/ GzCreateTmp \/ GzCopy \/ GzFlush \/ GzRename \/ GzKill
    \/ GzInputChanges

SpecGzip == InitGzip /\ [][NextGzip]_vars

\* C7: at every state of decompress_gzip, kills and failures included,
\* output_file is absent or complete; it is the file found at the start of
\* the call until the rename, after which it is the complete decompression
\* of the input; a call that fails leaves it as it was found.
C7_DecompressionAtomic ==
    LET o == gzfs["out"] IN
    /\ o.exists => o.full
    /\ \/ o = gzpre
       \/ gzpc = "idle" /\ gzres = "ok" /\ o.exists /\ o.full /\ o.ver = art.ver
    /\ gzres = "err" => o = gzpre

\* C7 witness: a call failed after writing part of the temporary file and
\* the previous output_file is still in place
C7_Witness ==
    /\ gzpc = "idle" /\ gzres = "err"
    /\ gzfs["tmp"].exists /\ ~gzfs["tmp"].full /\ gzfs["tmp"].ver # gzfs["out"].ver
    /\ gzfs["out"].exists /\ gzfs["out"] = gzpre

\* ================================================== download_cached_gzip
\* download_cached_gzip(url, output_file_gzip, output_file, interval): the
\* gzip artifact is `art`, output_file is gzfs["out"]. Its position is that
\* of download_cached (pc), then that of decompress_gzip (gzpc).
InitCachedGzip ==
    /\ art = AbsentFile /\ FetchQuiet
    /\ GzIdle /\ ExIdle /\ ScanIdle /\ CliIdle

\* let cache_result = download_cached(url, output_file_gzip, Some(..), None)?
CachedGzipCall ==
    /\ gzpc = "idle" /\ gzres = "none" /\ result = NoResult
    /\ Call

\* if !cache_result || !fs::metadata(output_file).is_ok()
need_decompress_gzip ==
    \/ result = Ok("downloaded")
    \/ result = Ok("cached") /\ ~gzfs["out"].exists

\* decompress_gzip(output_file_gzip, output_file)?
CachedGzipDecompress ==
    /\ pc = "idle" /\ gzres = "none" /\ need_decompress_gzip
    /\ GzOpen

\* The process has ended (the function returned, or it was killed); the
\* next run starts with the files as they were left
CachedGzipNextRun ==
    /\ pc = "idle" /\ gzpc = "idle"
    /\ result # NoResult \/ gzres # "none"
    /\ gzres' = "none"
    /\ result' = NoResult /\ pre' = NoPre /\ resp' = NoResp /\ reqs' = 0
    /\ wfail' = FALSE
    /\ UNCHANGED <<art, etag, now, mtimeOk, srv, pc, headers, buffered,
                   gzfs, gzpc, gzpre, exVars, scanVars, cliVars>>

\* Between two runs time passes and the remote resource changes
CachedGzipEnvironment ==
    /\ gzpc = "idle" /\ gzres = "none" /\ result = NoResult
    /\ Tick \/ ServerUpdate

NextCachedGzip ==
    \/ CachedGzipCall \/ RemoveEtag \/ SendFails \/ Send
    \/ Touch \/ CreateMissingEtag \/ WriteMissingEtag
    \/ CreateArtifact \/ CopyBody \/ CopyFails
    \/ WriteFailRemoveEtag \/ WriteFailRemoveArtifact
    \/ LastModified \/ SaveEtag \/ SaveEtagFailed \/ DropWriter
    \/ OtherRemoveArtifact \/ OtherRemoveEtag
    \/ Kill
    \/ CachedGzipDecompress
    \/ GzCreateTmp \/ GzCopy \/ GzFlush \/ GzRename \/ GzKill
    \/ CachedGzipNextRun \/ CachedGzipEnvironment

SpecCachedGzip == InitCachedGzip /\ [][NextCachedGzip]_vars

\* download_cached_gzip has returned Ok(output_file)
CachedGzipReturnedOk ==
    /\ pc = "idle" /\ gzpc = "idle"
    /\ \/ result = Ok("cached") /\ gzres = "none" /\ gzfs["out"].exists
       \/ result \in {Ok("cached"), Ok("downloaded")} /\ gzres = "ok"

\* C22 (as claimed, for a gzip artifact that is complete on disk): whenever
\* download_cached_gzip returns successfully, output_file is the complete
\* decompression of the gzip artifact now on disk.
C22_OutputMatchesArtifact ==
    (CachedGzipReturnedOk /\ art.exists /\ art.full)
        => /\ gzfs["out"].exists /\ gzfs["out"].full
           /\ gzfs["out"].ver = art.ver

\* ======================================================= exclude_subnets
\* An IpNet is [fam, addr, len]: an address of AddrBits bits and a prefix
\* length. IpNet::from_str keeps the address as written (host bits
\* included); network() and broadcast() mask it.
RECURSIVE Pow2(_)
Pow2(n) == IF n = 0 THEN 1 ELSE 2 * Pow2(n - 1)

Families == {"v4", "v6"}
Size(p) == Pow2(AddrBits - p.len)
Network(p) == p.addr - (p.addr % Size(p))
Broadcast(p) == Network(p) + Size(p) - 1
Addresses(p) == {<<p.fam, a>> : a \in Network(p)..Broadcast(p)}

\* Every IpNet that IpNet::from_str can return
ParsedNets ==
    [fam : Families, addr : 0..(Pow2(AddrBits) - 1), len : 0..AddrBits]

\* The prefixes in all-zeros-host form (what a route announcement carries)
Truncated == {p \in ParsedNets : p.addr = Network(p)}

\* Mutation of Contains: strict containment only
Contains_Strict(a, b) ==
    /\ a.fam = b.fam
    /\ Network(a) <= Network(b)
    /\ Broadcast(b) <= Broadcast(a)
    /\ Size(a) > Size(b)

\* IpNet::contains(&IpNet): false across families
Contains(a, b) ==
    /\ a.fam = b.fam
    /\ Network(a) <= Network(b)
    /\ Broadcast(b) <= Broadcast(a)

\* IpNet::subnets(new_prefix_len): the subnets of that length, in address order
Subnets(p, new_prefix_len) ==
    [i \in 1..Pow2(new_prefix_len - p.len) |->
        [fam |-> p.fam,
         addr |-> Network(p) + (i - 1) * Pow2(AddrBits - new_prefix_len),
         len |-> new_prefix_len]]

\* `subnet == *excluded`: derived equality of family, address and length
SameNet(a, b) == a.fam = b.fam /\ a.addr = b.addr /\ a.len = b.len

\* The body of the 'outer loop for one prefix: the first member of
\* excluded_set (in its iteration order) that contains the prefix or is
\* contained by it decides, and the loop continues with the next prefix
RECURSIVE ExcludeFrom(_, _, _)
ExcludeFrom(prefix, order, i) ==
    IF i > Len(order) THEN <<prefix>>
    ELSE IF Contains(order[i], prefix) THEN <<>>
    ELSE IF Contains(prefix, order[i])
         THEN SelectSeq(Subnets(prefix, order[i].len),
                        LAMBDA subnet : ~SameNet(subnet, order[i]))
         ELSE ExcludeFrom(prefix, order, i + 1)

\* exclude_subnets(prefixes, excluded_subnets)
RECURSIVE exclude_subnets(_, _)
exclude_subnets(prefixes, order) ==
    IF prefixes = <<>> THEN <<>>
    ELSE ExcludeFrom(Head(prefixes), order, 1) \o exclude_subnets(Tail(prefixes), order)

RECURSIVE SeqsUpTo(_, _)
SeqsUpTo(S, n) ==
    IF n = 0 THEN {<<>>} ELSE SeqsUpTo(S, n - 1) \cup [1..n -> S]

\* Sequences of at most n distinct members of S (a HashSet in every
\* iteration order)
DistinctSeqs(S, n) ==
    {q \in SeqsUpTo(S, n) : \A a, b \in 1..Len(q) : a # b => q[a] # q[b]}

FetchGzQuiet == FetchIdle /\ GzIdle

\* One candidate and one excluded subnet, of either family
InitExclude ==
    /\ cand \in [1..1 -> Truncated]
    /\ excl \in [1..1 -> ParsedNets]
    /\ exres = NotRun
    /\ FetchGzQuiet /\ ScanIdle /\ CliIdle

\* Several candidates and several excluded subnets
InitExcludeMulti ==
    /\ cand \in (SeqsUpTo({p \in Truncated : p.fam = "v4"}, MaxPrefixes) \ {<<>>})
    /\ excl \in DistinctSeqs({p \in Truncated : p.fam = "v4"}, MaxExcluded)
    /\ exres = NotRun
    /\ FetchGzQuiet /\ ScanIdle /\ CliIdle

\* crate::exclude_subnets(&prefixes, excluded)
RunExclude ==
    /\ ~exres.done
    /\ exres' = [done |-> TRUE, out |-> exclude_subnets(cand, excl)]
    /\ UNCHANGED <<cand, excl, fetchVars, gzVars, scanVars, cliVars>>

NextExclude == RunExclude

SpecExclude == InitExclude /\ [][NextExclude]_vars
SpecExcludeMulti == InitExcludeMulti /\ [][NextExclude]_vars

Covered(q) == UNION {Addresses(q[i]) : i \in 1..Len(q)}
Overlap(a, b) == Addresses(a) \cap Addresses(b) # {}

\* C4 (as claimed, its first two clauses): for one candidate C and one
\* excluded prefix E, the returned prefixes are pairwise disjoint and none
\* of them overlaps E.
C4_DisjointAndClearOfExcluded ==
    exres.done =>
        /\ \A i, j \in 1..Len(exres.out) :
              i # j => ~Overlap(exres.out[i], exres.out[j])
        /\ \A i \in 1..Len(exres.out) : ~Overlap(exres.out[i], excl[1])

\* C4 (as claimed, its third clause): the union of the returned prefixes,
\* together with E when E is contained in C, is exactly C's address range.
C4_Reconstruction ==
    exres.done =>
        Covered(exres.out)
            \cup (IF Contains(cand[1], excl[1]) THEN Addresses(excl[1]) ELSE {})
          = Addresses(cand[1])

\* C5 (as claimed): the address space covered by the result is exactly the
\* space covered by the candidates minus the space covered by the excluded
\* prefixes.
C5_MultiExclusionExact ==
    exres.done => Covered(exres.out) = Covered(cand) \ Covered(excl)

\* C15: excluding a prefix C from C returns the empty sequence, and excluding
\* from C a prefix E whose address range is disjoint from C's returns exactly
\* [C].
C15_ExclusionIdentity ==
    exres.done =>
        /\ (excl[1] = cand[1] => exres.out = <<>>)
        /\ (~Overlap(cand[1], excl[1]) => exres.out = cand)

\* C15 witness: a prefix shorter than the whole address space was excluded
\* from itself
C15_Witness ==
    /\ exres.done /\ excl[1] = cand[1] /\ cand[1].len > 0
    /\ exres.out = <<>>

\* C20 (as claimed, for an excluded prefix E in all-zeros-host form): when E
\* is strictly contained in the candidate C, the exclusion returns at most
\* (E's prefix length - C's prefix length) prefixes.
C20_OutputSizeBound ==
    (exres.done /\ excl[1] \in Truncated
        /\ Contains(cand[1], excl[1]) /\ excl[1].len > cand[1].len)
        => Len(exres.out) <= excl[1].len - cand[1].len

\* ========================================================= scan_prefixes
\* parser.add_filter("origin_asn", "53429")
HardcodedAsn == 53429

Asns == {HardcodedAsn, 64500, 64501}
ScanPrefixes == {p \in Truncated : p.len = 0}

\* A BgpElem: elem_type, prefix and origin_asns (empty for None)
Elems == [typ : {"announce", "withdraw"}, prefix : ScanPrefixes, origins : SUBSET Asns]

\* (ipv4_only, ipv6_only) -> the "ip_version" filter
IpVersionOk(fam, filter) ==
    \/ filter = "either"
    \/ filter = "ipv4_only" /\ fam = "v4"
    \/ filter = "ipv6_only" /\ fam = "v6"

\* The elements that pass the "ip_version" and "type" = "announce" filters
Filtered(recs, filter) ==
    {i \in 1..Len(recs) :
        recs[i].typ = "announce" /\ IpVersionOk(recs[i].prefix.fam, filter)}

\* scan_prefixes(file, origin_asns, ipv4_only, ipv6_only)
scan_prefixes(recs, origin_asns, filter) ==
    IF Cardinality(origin_asns) = 1
    THEN {recs[i].prefix : i \in {j \in Filtered(recs, filter) :
                                    HardcodedAsn \in recs[j].origins}}
    ELSE {recs[i].prefix : i \in {j \in Filtered(recs, filter) :
                                    recs[j].origins \cap origin_asns # {}}}

InitScan ==
    /\ records \in SeqsUpTo(Elems, MaxRecords)
    /\ wanted \in (SUBSET Asns) \ {{}}
    /\ famFilter \in {"either", "ipv4_only", "ipv6_only"}
    /\ scanres = NotScanned
    /\ FetchGzQuiet /\ ExIdle /\ CliIdle

RunScan ==
    /\ ~scanres.done
    /\ scanres' = [done |-> TRUE, out |-> scan_prefixes(records, wanted, famFilter)]
    /\ UNCHANGED <<records, wanted, famFilter, fetchVars, gzVars, exVars, cliVars>>

NextScan == RunScan

SpecScan == InitScan /\ [][NextScan]_vars

\* C6 (as claimed): scan_prefixes returns exactly the prefixes of the records
\* that are announcements, match the requested address family and whose
\* origin ASNs intersect the requested origin-ASN set.
C6_CollectorFilter ==
    scanres.done =>
        scanres.out =
            {records[i].prefix : i \in {j \in 1..Len(records) :
                /\ records[j].typ = "announce"
                /\ IpVersionOk(records[j].prefix.fam, famFilter)
                /\ records[j].origins \cap wanted # {}}}

\* ================================================= main: find-netblocks
\* The texts an --exclude-subnets entry can be: a parsable IPv4 prefix (host
\* bits allowed), or text that is not a prefix
ExcludeArgs ==
    {[wf |-> TRUE, net |-> n] : n \in {p \in ParsedNets : p.fam = "v4"}}
        \cup {NoArg}

\* IpNet::from_str(s).ok()
IpNetFromStr(s) == IF s.wf THEN Some(s.net) ELSE None

\* transform_subnets_ipnet(opts)
transform_subnets_ipnet(o) ==
    IF o.some /\ o.v # <<>>
    THEN LET ok == SelectSeq(o.v, LAMBDA s : IpNetFromStr(s).some)
             parsed_subnets == [i \in 1..Len(ok) |-> IpNetFromStr(ok[i]).v]
         IN  IF parsed_subnets = <<>> THEN None ELSE Some(parsed_subnets)
    ELSE None

\* The iteration orders of the HashSet collected from a Vec
Orders(q) ==
    LET S == {q[i] : i \in 1..Len(q)} IN
    {o \in DistinctSeqs(S, Cardinality(S)) : Len(o) = Cardinality(S)}

\* IpNet::aggregate(&filtered_prefixes): the largest prefixes whose addresses
\* are all covered by the given prefixes
Aggregate(q) ==
    LET C == {p \in Truncated : Addresses(p) \subseteq Covered(q)} IN
    {p \in C : \A r \in C : Contains(r, p) => r = p}

\* find-netblocks with `prefixes` (the result of the scan) in cand
InitMain ==
    /\ cand \in [1..1 -> {p \in Truncated : p.fam = "v4"}]
    /\ opts \in {None} \cup {Some(q) : q \in SeqsUpTo(ExcludeArgs, MaxExcluded)}
    /\ excl = <<>> /\ exres = NotRun
    /\ mpc = "start" /\ stdout = {}
    /\ NbIdle /\ FetchGzQuiet /\ ScanIdle

MainOthers == UNCHANGED <<fetchVars, gzVars, scanVars, nbVars>>

\* let excluded_subnets = transform_subnets_ipnet(exclude_subnets);
\* (None is kept as the empty Vec, which Some never holds)
MainParse ==
    /\ mpc = "start"
    /\ excl' = transform_subnets_ipnet(opts).v
    /\ mpc' = "exclude"
    /\ UNCHANGED <<cand, exres, opts, stdout>> /\ MainOthers

\* let filtered_prefixes = match excluded_subnets { .. }
MainExclude ==
    /\ mpc = "exclude"
    /\ IF excl = <<>>
       THEN exres' = [done |-> TRUE, out |-> cand]
       ELSE \E order \in Orders(excl) :
               exres' = [done |-> TRUE, out |-> exclude_subnets(cand, order)]
    /\ mpc' = "render"
    /\ UNCHANGED <<cand, excl, opts, stdout>> /\ MainOthers

\* IpNet::aggregate(&filtered_prefixes); render_output(..)?; Ok(())
MainRender ==
    /\ mpc = "render"
    /\ \/ stdout' = Aggregate(exres.out) /\ mpc' = "exit0"
       \/ UNCHANGED stdout /\ mpc' = "exit1"
    /\ UNCHANGED <<cand, excl, exres, opts>> /\ MainOthers

NextMain == MainParse \/ MainExclude \/ MainRender

SpecMain == InitMain /\ [][NextMain]_vars

\* C14 (as claimed): when an entry of the excluded-subnet list does not parse
\* as a prefix, the run does not end successfully and prints no result.
C14_MalformedInputAborts ==
    (opts.some /\ \E i \in 1..Len(opts.v) : ~opts.v[i].wf)
        => (mpc # "exit0" /\ stdout = {})

\* C21 (as claimed): every prefix the exclusion step handles, the candidates
\* and the excluded subnets parsed from the command line, has its host bits
\* zero, so that two of them are structurally equal exactly when their
\* address ranges are equal.
C21_NormalForm ==
    mpc \in {"exclude", "render", "exit0", "exit1"}
        => /\ \A i \in 1..Len(cand) : cand[i].addr = Network(cand[i])
           /\ \A i \in 1..Len(excl) : excl[i].addr = Network(excl[i])
           /\ \A i, j \in 1..Len(excl) :
                 SameNet(excl[i], excl[j])
                     <=> Addresses(excl[i]) = Addresses(excl[j])

\* =============================================== main: netblock-contains
\* The texts of `needle` and `haystack`: a parsable prefix of either family
\* (host bits allowed), or text that is not a prefix
NbArgs == {[wf |-> TRUE, net |-> n] : n \in ParsedNets} \cup {NoArg}

\* IpNet::contains(&IpAddr)
ContainsAddr(net, fam, addr) ==
    net.fam = fam /\ Network(net) <= addr /\ addr <= Broadcast(net)

InitNetblockContains ==
    /\ needle \in NbArgs /\ haystack \in NbArgs /\ nbres = "none"
    /\ MainIdle /\ FetchGzQuiet /\ ExIdle /\ ScanIdle

\* Commands::NetblockContains { needle, haystack }
NetblockContains ==
    /\ nbres = "none"
    /\ nbres' =
        IF ~IpNetFromStr(needle).some \/ ~IpNetFromStr(haystack).some THEN "err"
        ELSE IF ContainsAddr(haystack.net, needle.net.fam, needle.net.addr)
        THEN "contains"
        ELSE "does not contain"
    /\ UNCHANGED <<needle, haystack, mainVars, fetchVars, gzVars, exVars, scanVars>>

NextNetblockContains == NetblockContains

SpecNetblockContains == InitNetblockContains /\ [][NextNetblockContains]_vars

\* C16 (as claimed): for a needle and a haystack of the same family, the
\* command prints "contains" if and only if the haystack's range holds every
\* address of the needle's range.
C16_ContainsWholeNeedle ==
    (nbres \in {"contains", "does not contain"}
        /\ needle.net.fam = haystack.net.fam)
        => (nbres = "contains" <=> Contains(haystack.net, needle.net))

\* ============================================== download_cached: claims
\* download_cached has returned a value (it was not killed)
Returned == pc = "idle" /\ result.kind \in {"cached", "downloaded", "err"}

\* The side-car found by the call, read with the clock of the call
PreAge == now - pre.etag.mtime
PreSidecarReadable == pre.art.exists /\ pre.etag.exists /\ mtimeOk
PreStale == PreSidecarReadable /\ PreAge >= 0 /\ PreAge > pre.window
PreCorruptStale == PreStale /\ pre.etag.kind \in {"empty", "invalid", "unreadable"}

\* C1 (as claimed): whenever the artifact exists and the side-car exists with
\* age (now minus side-car mtime) at most the revalidation window, a call of
\* download_cached sends no request, returns Ok(true) (CACHED) and leaves the
\* artifact and the side-car unchanged.
C1_CachedWithinWindow ==
    (Returned /\ PreSidecarReadable /\ PreAge <= pre.window)
        => /\ result = Ok("cached")
           /\ reqs = 0
           /\ art = pre.art /\ etag = pre.etag

\* C2 (as claimed, restricted to calls that find a stale side-car on a
\* platform with mtimes and that meet no transport, status or file error):
\* when the artifact
\* is the complete current version of the remote resource, the call sends
\* exactly one request, reports CACHED and leaves the artifact's bytes alone.
C2_AnyStaleSidecarRevalidates ==
    (Returned /\ result.kind # "err" /\ ~wfail /\ PreStale
        /\ pre.art.full /\ pre.art.ver = srv.ver)
        => /\ reqs = 1
           /\ result = Ok("cached")
           /\ art.exists /\ art.ver = pre.art.ver /\ art.full

\* The request of the call carries a precondition that holds of the current
\* remote version: a stale side-car with the token of that version, or no
\* side-car and an artifact mtime not older than the resource's last change.
PreUsablePrecondition ==
    /\ pre.art.exists /\ mtimeOk
    /\ \/ PreStale /\ pre.etag.kind = "token" /\ pre.etag.ver = srv.ver
       \/ ~pre.etag.exists /\ pre.art.mtime >= srv.lastmod

\* C2 (amended): when the artifact is the complete current version of the
\* remote resource, the call falls outside the window, its request carries a
\* precondition that holds of the current version, and the call returns
\* without a transport, status or file error, then exactly one request was
\* sent, the call reports CACHED and the artifact's bytes are unmodified.
C2_Revalidation ==
    (Returned /\ result.kind # "err" /\ PreUsablePrecondition
        /\ pre.art.full /\ pre.art.ver = srv.ver)
        => /\ reqs = 1
           /\ result = Ok("cached")
           /\ art.exists /\ art.ver = pre.art.ver /\ art.full

\* C2 witness: a stale side-car with the current token was revalidated
C2_Witness ==
    /\ Returned /\ result = Ok("cached") /\ reqs = 1
    /\ PreStale /\ pre.etag.kind = "token" /\ pre.etag.ver = srv.ver
    /\ pre.art.full /\ pre.art.ver = srv.ver
    /\ etag.mtime = now /\ now > pre.etag.mtime

\* C3 (as claimed): download_cached never reports CACHED while the artifact
\* on disk is truncated or partially written, whatever kills came before.
C3_NeverCachedWhilePartial ==
    (pc = "idle" /\ result = Ok("cached")) => (art.exists /\ art.full)

\* C8: when the server answers with a status other than 200 or 304, the call
\* returns an error that embeds that status, and neither the artifact nor the
\* side-car exists afterwards.
C8_OtherStatus ==
    /\ (Returned /\ resp.status \notin {0, 200, 304})
        => /\ result = Err("http", resp.status)
           /\ ~art.exists /\ ~etag.exists
    /\ (Returned /\ result.why = "http") => result.status \in OtherStatuses

\* C8 witness: an error status answered a call that found both files
C8_Witness ==
    /\ Returned /\ resp.status \in OtherStatuses
    /\ pre.art.exists /\ pre.etag.exists
    /\ result = Err("http", resp.status)

\* C9 (as claimed, for calls whose only failure is the body write): when a
\* write of a 200 response body to the artifact fails, the call returns an
\* error and afterwards neither the artifact nor a side-car exists.
C9_WriteFailureCleansUp ==
    (Returned /\ wfail /\ result.why \notin {"io", "header", "token"})
        => /\ result.kind = "err"
           /\ ~art.exists /\ ~etag.exists

\* C10 (as claimed): with an artifact and a stale side-car whose content is
\* unreadable, empty or not a header value, the outgoing request is the one
\* the call would send if no side-car existed.
C10_SameRequestAsNoSidecar ==
    (pc = "send" /\ PreCorruptStale)
        => headers = Decide(pre.art, AbsentEtag, now, pre.window, mtimeOk).hdr

\* C10 (amended): with an artifact and a stale side-car whose content is
\* unreadable, empty or not a header value, the call deletes the side-car
\* before the request, sends the request with no precondition header (a call
\* that finds no side-car sends If-Modified-Since), and never returns before
\* the request has been sent: no error is raised for the side-car content.
C10_CorruptSidecarRecovery ==
    PreCorruptStale
        => /\ pc = "send" => (~etag.exists /\ headers = NoHeaders)
           /\ Returned => reqs = 1
           /\ pc \in {"remove_etag", "send"} => reqs = 0

\* C10 witness: the request is about to be sent after such a side-car
C10_Witness == pc = "send" /\ PreCorruptStale /\ ~etag.exists

\* C11 (as claimed): whatever the state of the side-car's metadata and
\* content, download_cached does not return an error before it has sent the
\* request.
C11_NoErrorBeforeRequest ==
    (Returned /\ result.kind = "err") => reqs >= 1

\* C12 (as claimed): whenever download_cached returns an error after the
\* request has been issued, neither the artifact nor the side-car exists.
C12_ErrorDeletesBoth ==
    (Returned /\ result.kind = "err" /\ reqs >= 1)
        => (~art.exists /\ ~etag.exists)

HeaderNames == {x.name : x \in headers}

\* C17: the request carries If-None-Match only when the artifact exists and
\* a stale side-car holds a token that parses as a header value (and then it
\* is that token), carries If-Modified-Since only when the artifact exists
\* and no side-car exists, never carries both, and carries neither when the
\* artifact does not exist, in which case no side-car is left on disk when
\* the request is sent.
C17_PreconditionSelection ==
    pc = "send" =>
        /\ "If-None-Match" \in HeaderNames
              => /\ PreStale /\ SidecarToken(pre.etag) = "usable"
                 /\ headers = IfNoneMatch(pre.etag.ver) /\ etag = pre.etag
        /\ "If-Modified-Since" \in HeaderNames
              => /\ pre.art.exists /\ ~pre.etag.exists
                 /\ headers = IfModifiedSince(pre.art.mtime)
        /\ Cardinality(headers) <= 1
        /\ ~pre.art.exists => (headers = NoHeaders /\ ~etag.exists)

\* C17 witness: a request with the token of a stale side-car is about to be
\* sent
C17_Witness ==
    /\ pc = "send" /\ PreStale
    /\ headers = IfNoneMatch(pre.etag.ver) /\ pre.etag.ver = 1

\* The side-car a 304 response leaves when the call found none
CreatedSidecar ==
    IF resp.etag
    THEN [exists |-> TRUE, kind |-> "token", ver |-> resp.ver, mtime |-> now]
    ELSE AbsentEtag

C19_SidecarFirstOrdering ==
    pc \in {"copy", "wf_rm_etag", "other_rm_etag"} => ~etag.exists

\* C23 (as claimed): after a call that reports DOWNLOADED, a side-car that
\* exists holds the token sent with the response whose body was written to
\* the artifact.
C23_SidecarMatchesDownload ==
    (Returned /\ result = Ok("downloaded") /\ etag.exists)
        => /\ resp.etag
           /\ etag.kind = "token" /\ etag.ver = resp.ver

====
